---- MODULE Spec2Model ----
(***************************************************************************)
(* A model of bad_take (src/src/lib.rs): IterTake, a cursor over a Vec<T>  *)
(* that hands out one Take handle at a time, and Take, the handle that is  *)
(* resolved by take (Vec::remove), take_unstable (Vec::swap_remove) or by  *)
(* being dropped (the cursor's index advances).                            *)
(*                                                                         *)
(* Indices are 0-based as in the source; TLA+ sequences are 1-based, so    *)
(* the element at index i of a Vec s is s[i + 1].                          *)
(***************************************************************************)
EXTENDS Integers, Sequences, FiniteSets

\* Bounds of the model.
MaxLen == 3
MaxVal == 1
MaxWrites == 1

Values == 0 .. MaxVal
NoValue == -1

SeqsUpTo(n) == UNION {[1 .. k -> Values] : k \in 0 .. n}

VARIABLES
    orig,       \* the Vec as it was when iter_take was called
    storage,    \* the Vec behind IterTake.inner
    index,      \* IterTake.index
    panic,      \* IterTake.panic
    cursor,     \* "alive" | "moved" | "dropped": the IterTake is where the
                \* live Take's parent pointer says, or lives on at another
                \* address, or no longer exists
    takes,      \* the live Take values, oldest first: each is its Take.index
    result,     \* what the last call of IterTake::next did
    log,        \* one record per resolved Take, in order of resolution
    writes,     \* number of stores made through DerefMut so far
    asserted,   \* a debug_assert!(parent.panic) has met a clear flag
    prev,       \* <<>>, or <<r>>: the log and the Vec a first traversal of
                \* a clone of orig ended with (see iter_take_clone)
    ub          \* undefined behaviour has been executed: a Take has used its
                \* parent pointer after the IterTake died, or an unchecked
                \* access was out of bounds

vars == <<orig, storage, index, panic, cursor, takes, result, log, writes,
          asserted, prev, ub>>

----------------------------------------------------------------------------
\* Vec<T>, as the source uses it.

\* Vec::len
VecLen(s) == Len(s)

\* slice::get_unchecked(i): out of bounds it is undefined; NoValue stands for
\* "no element there" and the callers below treat that case as undefined.
VecGet(s, i) == IF i >= 0 /\ i < Len(s) THEN s[i + 1] ELSE NoValue

\* Vec::swap_remove where Vec::remove was meant.
VecRemove_swap(s, i) ==
    IF i < Len(s)
    THEN [vec |-> [k \in 1 .. Len(s) - 1 |->
                      IF k = i + 1 THEN s[Len(s)] ELSE s[k]],
          out |-> s[i + 1]]
    ELSE [vec |-> s, out |-> NoValue]

\* Vec::remove(i): the Vec it leaves and the element it returns. Later
\* elements shift down by one. On i >= len it panics: nothing is removed
\* and nothing returned.
VecRemove(s, i) ==
    IF i < Len(s)
    THEN [vec |-> [k \in 1 .. Len(s) - 1 |-> IF k <= i THEN s[k] ELSE s[k + 1]],
          out |-> s[i + 1]]
    ELSE [vec |-> s, out |-> NoValue]

\* Vec::swap_remove dropping the last element instead of moving it.
VecSwapRemove_truncate(s, i) ==
    IF i < Len(s)
    THEN [vec |-> SubSeq(s, 1, Len(s) - 1), out |-> s[i + 1]]
    ELSE [vec |-> s, out |-> NoValue]

\* Vec::remove where Vec::swap_remove was meant.
VecSwapRemove_shift(s, i) ==
    IF i < Len(s)
    THEN [vec |-> [k \in 1 .. Len(s) - 1 |-> IF k <= i THEN s[k] ELSE s[k + 1]],
          out |-> s[i + 1]]
    ELSE [vec |-> s, out |-> NoValue]

\* Vec::swap_remove(i): the last element takes the place of i. On i >= len
\* it panics likewise.
VecSwapRemove(s, i) ==
    IF i < Len(s)
    THEN [vec |-> [k \in 1 .. Len(s) - 1 |->
                      IF k = i + 1 THEN s[Len(s)] ELSE s[k]],
          out |-> s[i + 1]]
    ELSE [vec |-> s, out |-> NoValue]

\* The store going to the first element whatever the index.
VecSet_first(s, i, v) == [s EXCEPT ![1] = v]

\* A store through the &mut T that get_unchecked_mut(i) returns, i < len.
VecSet(s, i, v) == [s EXCEPT ![i + 1] = v]

\* The sequence q without its h-th member.
Without(q, h) == [k \in 1 .. Len(q) - 1 |-> IF k < h THEN q[k] ELSE q[k + 1]]

----------------------------------------------------------------------------
\* IterTake::new: index 0, flag clear, no Take emitted yet.
Init ==
    /\ orig \in SeqsUpTo(MaxLen)
    /\ storage = orig
    /\ index = 0
    /\ panic = FALSE
    /\ cursor = "alive"
    /\ takes = <<>>
    /\ result = "fresh"
    /\ log = <<>>
    /\ writes = 0
    /\ asserted = FALSE
    /\ prev = <<>>
    /\ ub = FALSE

\* The flag test left out of IterTake::next.
Outstanding_unchecked == FALSE

\* IterTake::next, first test: the flag says a Take is still out.
Outstanding == panic

\* The end test one element late.
AtEnd_late == index = VecLen(storage) + 1

\* IterTake::next, second test: nothing left to visit.
AtEnd == index = VecLen(storage)

\* IterTake::next with `self.panic = true` moved above the end test.
IterTake_next_early_flag ==
    /\ cursor # "dropped"
    /\ IF Outstanding
       THEN /\ result' = "panic"
            /\ UNCHANGED <<panic, takes>>
       ELSE IF AtEnd
       THEN /\ result' = "none"
            /\ panic' = TRUE
            /\ UNCHANGED takes
       ELSE /\ panic' = TRUE
            /\ takes' = Append(takes, index)
            /\ result' = "some"
    /\ UNCHANGED <<orig, storage, index, cursor, log, writes, asserted, prev,
                   ub>>

\* IterTake::next stepping the index itself, as a slice iterator does.
IterTake_next_advance ==
    /\ cursor # "dropped"
    /\ IF Outstanding
       THEN /\ result' = "panic"
            /\ UNCHANGED <<panic, takes, index>>
       ELSE IF AtEnd
       THEN /\ result' = "none"
            /\ UNCHANGED <<panic, takes, index>>
       ELSE /\ panic' = TRUE
            /\ takes' = Append(takes, index)
            /\ index' = index + 1
            /\ result' = "some"
    /\ UNCHANGED <<orig, storage, cursor, log, writes, asserted, prev, ub>>

\* IterTake::next without `self.panic = true`.
IterTake_next_no_flag ==
    /\ cursor # "dropped"
    /\ IF Outstanding
       THEN /\ result' = "panic"
            /\ UNCHANGED <<panic, takes>>
       ELSE IF AtEnd
       THEN /\ result' = "none"
            /\ UNCHANGED <<panic, takes>>
       ELSE /\ takes' = Append(takes, index)
            /\ result' = "some"
            /\ UNCHANGED panic
    /\ UNCHANGED <<orig, storage, index, cursor, log, writes, asserted, prev,
                   ub>>

\* IterTake::next. The panic! comes before any store, so a caught panic
\* (or the unwinding that follows it) finds the cursor as it was.
IterTake_next ==
    /\ cursor # "dropped"
    /\ IF Outstanding
       THEN /\ result' = "panic"
            /\ UNCHANGED <<panic, takes>>
       ELSE IF AtEnd
       THEN /\ result' = "none"
            /\ UNCHANGED <<panic, takes>>
       ELSE /\ panic' = TRUE
            /\ takes' = Append(takes, index)
            /\ result' = "some"
    /\ UNCHANGED <<orig, storage, index, cursor, log, writes, asserted, prev,
                   ub>>

\* The IterTake goes away (end of scope, end of the statement that built it
\* as a temporary, or consumed by value). Item = Take<'a, T> borrows the Vec
\* for 'a, not the IterTake, so the borrow checker allows this while a Take
\* is live. IterTake has no Drop: its bytes stay where they were, dead.
IterTake_drop ==
    /\ cursor # "dropped"
    /\ cursor' = "dropped"
    /\ UNCHANGED <<orig, storage, index, panic, takes, result, log, writes,
                   asserted, prev, ub>>

\* The IterTake is moved (`let j = i;`, passed by value, pushed into an
\* adaptor) while a Take it emitted is live: nothing borrows the IterTake,
\* so the borrow checker allows it. The fields are copied to the new place;
\* the Take's parent pointer still names the old one. A move with no Take
\* out changes nothing that can be told apart and is left out.
IterTake_move ==
    /\ cursor = "alive"
    /\ Len(takes) > 0
    /\ cursor' = "moved"
    /\ UNCHANGED <<orig, storage, index, panic, takes, result, log, writes,
                   asserted, prev, ub>>

\* A Take whose IterTake is gone or moved holds a dangling parent pointer;
\* using it is undefined. The outcomes modelled: the bytes it names are
\* still as the IterTake left them (the operation does what it does on a
\* live parent; after a move it reaches the Vec through the stale copy of
\* `inner` and stores flag and index in the stale copy, not in the IterTake),
\* or they are not (the operation reaches neither the cursor's fields nor
\* the Vec).
Dangling == cursor \in {"dropped", "moved"}

\* The parent pointer names the place the IterTake was moved out of.
Stale == cursor = "moved"

\* The Take is gone: consumed by take/take_unstable or dropped. The log
\* keeps how, the element the Take stood for at that moment (what *take
\* showed) and the value the call returned (NoValue for a drop).
Resolved(h, op, out) ==
    /\ takes' = Without(takes, h)
    /\ log' = Append(log, [op |-> op, val |-> VecGet(storage, takes[h]),
                           out |-> out])

\* debug_assert!(parent.panic, ...) in take, take_unstable, drop, deref_mut.
DebugAssert == asserted' = (asserted \/ ~panic)

\* Drop for Take stepping over an element.
DropIndex_skip(i) == i + 2

\* What Drop for Take stores in parent.index.
DropIndex(i) == i + 1

\* Drop for Take removing the element it stood for.
DropStorage_remove(s, i) == VecRemove(s, i).vec

\* What Drop for Take leaves in the Vec: it does not touch it.
DropStorage(s, i) == s

\* Take::take without ManuallyDrop: Drop for Take runs as self goes out of
\* scope and bumps the index after the removal.
Take_take_double(h) ==
    LET i == takes[h] IN
    /\ ub' = (ub \/ Dangling)
    /\ \/ /\ DebugAssert
          /\ panic' = FALSE
          /\ index' = DropIndex(index)
          /\ storage' = VecRemove(storage, i).vec
          /\ Resolved(h, "take", VecRemove(storage, i).out)
       \/ /\ Dangling
          /\ Resolved(h, "take", NoValue)
          /\ UNCHANGED <<storage, index, panic, asserted>>
    /\ UNCHANGED <<orig, cursor, result, writes, prev>>

\* Take::take. Vec::remove panics on i >= len, after the flag was cleared
\* and with the Take under ManuallyDrop: nothing else changes then.
Take_take(h) ==
    LET i == takes[h] IN
    /\ ub' = (ub \/ Dangling)
    /\ \/ /\ ~Stale
          /\ DebugAssert
          /\ panic' = FALSE
          /\ storage' = VecRemove(storage, i).vec
          /\ Resolved(h, "take", VecRemove(storage, i).out)
       \/ /\ Stale
          /\ storage' = VecRemove(storage, i).vec
          /\ Resolved(h, "take", VecRemove(storage, i).out)
          /\ UNCHANGED <<panic, asserted>>
       \/ /\ Dangling
          /\ Resolved(h, "take", NoValue)
          /\ UNCHANGED <<storage, panic, asserted>>
    /\ UNCHANGED <<orig, index, cursor, result, writes, prev>>

\* Take::take_unstable without ManuallyDrop, likewise.
Take_take_unstable_double(h) ==
    LET i == takes[h] IN
    /\ ub' = (ub \/ Dangling)
    /\ \/ /\ DebugAssert
          /\ panic' = FALSE
          /\ index' = DropIndex(index)
          /\ storage' = VecSwapRemove(storage, i).vec
          /\ Resolved(h, "take_unstable", VecSwapRemove(storage, i).out)
       \/ /\ Dangling
          /\ Resolved(h, "take_unstable", NoValue)
          /\ UNCHANGED <<storage, index, panic, asserted>>
    /\ UNCHANGED <<orig, cursor, result, writes, prev>>

\* Take::take_unstable. Vec::swap_remove panics on i >= len likewise.
Take_take_unstable(h) ==
    LET i == takes[h] IN
    /\ ub' = (ub \/ Dangling)
    /\ \/ /\ ~Stale
          /\ DebugAssert
          /\ panic' = FALSE
          /\ storage' = VecSwapRemove(storage, i).vec
          /\ Resolved(h, "take_unstable", VecSwapRemove(storage, i).out)
       \/ /\ Stale
          /\ storage' = VecSwapRemove(storage, i).vec
          /\ Resolved(h, "take_unstable", VecSwapRemove(storage, i).out)
          /\ UNCHANGED <<panic, asserted>>
       \/ /\ Dangling
          /\ Resolved(h, "take_unstable", NoValue)
          /\ UNCHANGED <<storage, panic, asserted>>
    /\ UNCHANGED <<orig, index, cursor, result, writes, prev>>

\* Drop for Take without `parent.panic = false`.
Take_drop_no_clear(h) ==
    LET i == takes[h] IN
    /\ ub' = (ub \/ Dangling)
    /\ \/ /\ ~Stale
          /\ DebugAssert
          /\ index' = DropIndex(index)
          /\ storage' = DropStorage(storage, i)
          /\ Resolved(h, "drop", NoValue)
          /\ UNCHANGED panic
       \/ /\ Dangling
          /\ Resolved(h, "drop", NoValue)
          /\ UNCHANGED <<storage, index, panic, asserted>>
    /\ UNCHANGED <<orig, cursor, result, writes, prev>>

\* Drop for Take: clears the flag and bumps the parent's index.
Take_drop(h) ==
    LET i == takes[h] IN
    /\ ub' = (ub \/ Dangling)
    /\ \/ /\ ~Stale
          /\ DebugAssert
          /\ panic' = FALSE
          /\ index' = DropIndex(index)
          /\ storage' = DropStorage(storage, i)
          /\ Resolved(h, "drop", NoValue)
       \/ /\ Dangling
          /\ Resolved(h, "drop", NoValue)
          /\ UNCHANGED <<storage, index, panic, asserted>>
    /\ UNCHANGED <<orig, cursor, result, writes, prev>>

\* Deref for Take: get_unchecked(self.index), a read that changes nothing.
\* The values it can produce: the element, or anything when the access is
\* undefined (index out of bounds, or the parent pointer dangles).
Take_deref(h) ==
    LET i == takes[h] IN
    (IF i < VecLen(storage) THEN {VecGet(storage, i)} ELSE {})
        \cup (IF Dangling \/ i >= VecLen(storage) THEN Values ELSE {})

\* DerefMut for Take and a store of v through the &mut T it returns.
Take_deref_mut(h, v) ==
    LET i == takes[h]
        oob == i >= VecLen(storage) IN
    /\ writes < MaxWrites
    /\ writes' = writes + 1
    /\ ub' = (ub \/ Dangling \/ oob)
    /\ \/ /\ ~oob
          /\ IF Stale THEN UNCHANGED asserted ELSE DebugAssert
          /\ storage' = VecSet(storage, i, v)
       \/ /\ Dangling \/ oob
          /\ UNCHANGED <<storage, asserted>>
    /\ UNCHANGED <<orig, index, panic, cursor, takes, result, log, prev>>

Next ==
    \/ IterTake_next
    \/ IterTake_drop
    \/ IterTake_move
    \/ \E h \in 1 .. Len(takes) : Take_take(h)
    \/ \E h \in 1 .. Len(takes) : Take_take_unstable(h)
    \/ \E h \in 1 .. Len(takes) : Take_drop(h)
    \/ \E h \in 1 .. Len(takes), v \in Values : Take_deref_mut(h, v)

Spec == Init /\ [][Next]_vars

----------------------------------------------------------------------------
\* The Vec of the doc tests and of tests::iter_mut_parity.
DocVec == <<0, 1, 2, 3, 4, 5, 6, 7>>

\* Programs that drive the cursor the way the Iterator adaptors of the tests
\* do (for_each, filter, map, skip, take, collect): each Take is resolved
\* before next is called again, nothing is stored through a Take, and the
\* IterTake, owned by the adaptor chain, goes away only when no Take is out.
InitIter ==
    /\ orig \in SeqsUpTo(MaxLen) \cup {DocVec}
    /\ storage = orig
    /\ index = 0
    /\ panic = FALSE
    /\ cursor = "alive"
    /\ takes = <<>>
    /\ result = "fresh"
    /\ log = <<>>
    /\ writes = 0
    /\ asserted = FALSE
    /\ prev = <<>>
    /\ ub = FALSE

NextIter ==
    \/ ~Outstanding /\ IterTake_next
    \/ Len(takes) = 0 /\ IterTake_drop
    \/ \E h \in 1 .. Len(takes) : Take_take(h)
    \/ \E h \in 1 .. Len(takes) : Take_take_unstable(h)
    \/ \E h \in 1 .. Len(takes) : Take_drop(h)

SpecIter == InitIter /\ [][NextIter]_vars

\* A traversal that is not given up: the loop (for_each, collect) calls next
\* whenever no Take is out and resolves every Take it is given, until next
\* returns None; only then does the IterTake go away.
NextRun ==
    \/ ~Outstanding /\ IterTake_next
    \/ \E h \in 1 .. Len(takes) : Take_take(h)
    \/ \E h \in 1 .. Len(takes) : Take_take_unstable(h)
    \/ \E h \in 1 .. Len(takes) : Take_drop(h)
    \/ result = "none" /\ IterTake_drop

SpecRun == InitIter /\ [][NextRun]_vars /\ WF_vars(NextRun)

\* `let mut b = a.clone(); b.iter_take()` as the doc tests do it: once a
\* traversal has run to its end, its outcome is kept in prev and a new
\* IterTake (IterTake::new: index 0, flag clear) starts on a clone of the
\* original Vec.
iter_take_clone ==
    /\ prev = <<>>
    /\ result = "none"
    /\ prev' = <<[log |-> log, storage |-> storage]>>
    /\ storage' = orig
    /\ index' = 0
    /\ panic' = FALSE
    /\ cursor' = "alive"
    /\ takes' = <<>>
    /\ result' = "fresh"
    /\ log' = <<>>
    /\ UNCHANGED <<orig, writes, asserted, ub>>

\* Two traversals of equal Vecs, the first resolving with take or drop, the
\* second with take_unstable or drop.
NextPair ==
    \/ ~Outstanding /\ IterTake_next
    \/ \E h \in 1 .. Len(takes) : Take_drop(h)
    \/ prev = <<>> /\ \E h \in 1 .. Len(takes) : Take_take(h)
    \/ prev # <<>> /\ \E h \in 1 .. Len(takes) : Take_take_unstable(h)
    \/ iter_take_clone

SpecPair == InitIter /\ [][NextPair]_vars

----------------------------------------------------------------------------
\* Claims.

\* C1: a call of IterTake::next on a live IterTake while a Take it emitted
\* is still live panics and emits no second Take.
C1_NextWithTakeOutPanics ==
    [][(IterTake_next /\ Len(takes) > 0)
          => (result' = "panic" /\ takes' = takes)]_vars

\* C1 witness: next has panicked with the Take still out.
C1_Witness == cursor = "alive" /\ Len(takes) = 1 /\ result = "panic"

\* C2: at most one Take is live at any time.
C2_AtMostOneTake == Len(takes) <= 1

\* C2 witness: a Take is live after an earlier one was resolved.
C2_Witness == Len(takes) = 1 /\ Len(log) >= 1 /\ writes >= 1

\* C3: no Take is live once its IterTake is gone.
C3_TakeWithinIterTake == ~(cursor = "dropped" /\ Len(takes) > 0)

\* What the claims below speak of.

\* The traversal has run to its end: next has returned None.
Exhausted == result = "none"

\* Every Take of the log l was resolved the way op names.
AllOps(l, op) == \A k \in 1 .. Len(l) : l[k].op = op

IsExtraction(e) == e.op \in {"take", "take_unstable"}

\* The values take/take_unstable returned, in the order they were returned.
Extracted(l) ==
    LET sel == SelectSeq(l, IsExtraction)
    IN  [k \in 1 .. Len(sel) |-> sel[k].out]

\* The reference operations: the members of s that are in P (not in P), in
\* their order, and s without its positions [a, a + k).
Matching(s, P) == SelectSeq(s, LAMBDA x : x \in P)
NotMatching(s, P) == SelectSeq(s, LAMBDA x : x \notin P)
Drained(s, a, k) == SubSeq(s, 1, a) \o SubSeq(s, a + k + 1, Len(s))

Range(s) == {s[k] : k \in 1 .. Len(s)}
Count(s, v) == Cardinality({k \in 1 .. Len(s) : s[k] = v})
SameBag(s, u) == \A v \in Range(s) \cup Range(u) : Count(s, v) = Count(u, v)

\* The log l is that of a filter on P followed by op: a Take is resolved by
\* op when the element it shows is in P, and dropped when it is not.
Conforms(l, P, op) ==
    \A k \in 1 .. Len(l) :
        l[k].op = (IF l[k].val \in P THEN op ELSE "drop")

\* C4: a traversal to the end that drops every Take and stores nothing
\* leaves the Vec as it was.
C4_NoOpParity ==
    (Exhausted /\ writes = 0 /\ AllOps(log, "drop")) => storage = orig

\* C4 witness: tests::iter_mut_parity has run to its end.
C4_Witness ==
    /\ Exhausted /\ AllOps(log, "drop") /\ Len(log) = 8
    /\ orig = DocVec /\ storage = DocVec

\* C5: a traversal to the end that resolves every Take with take returns
\* the original Vec, in order, and leaves the Vec empty.
C5_FullExtraction ==
    (Exhausted /\ writes = 0 /\ AllOps(log, "take"))
        => (Extracted(log) = orig /\ storage = <<>>)

\* C5 witness: every element of the doc Vec has been taken.
C5_Witness ==
    /\ Exhausted /\ AllOps(log, "take")
    /\ orig = DocVec /\ Extracted(log) = DocVec /\ storage = <<>>

\* C6: for every predicate P, a traversal to the end that takes the Takes
\* whose element is in P and drops the others leaves the elements not in P,
\* in order, and returns those in P, in order.
C6_PredicateRemovalParity ==
    (Exhausted /\ writes = 0)
        => \A P \in SUBSET (Values \cup Range(orig)) :
              Conforms(log, P, "take")
                  => /\ storage = NotMatching(orig, P)
                     /\ Extracted(log) = Matching(orig, P)

\* C6 witness: the "Drain filter" doc test, P = divisible by 3.
C6_Witness ==
    /\ Exhausted /\ orig = DocVec /\ Conforms(log, {0, 3, 6}, "take")
    /\ storage = <<1, 2, 4, 5, 7>> /\ Extracted(log) = <<0, 3, 6>>

\* C7: for all a, k with a + k <= len, dropping the first a Takes and
\* taking the next k leaves the Vec without its positions [a, a + k) and
\* returns those positions, in order.
C7_RangeRemovalParity ==
    \A a \in 0 .. Len(orig) : \A k \in 0 .. Len(orig) - a :
        ( /\ Len(takes) = 0 /\ writes = 0
          /\ Len(log) = a + k
          /\ AllOps(SubSeq(log, 1, a), "drop")
          /\ AllOps(SubSeq(log, a + 1, a + k), "take") )
        => /\ storage = Drained(orig, a, k)
           /\ Extracted(log) = SubSeq(orig, a + 1, a + k)

\* C7 witness: the "Drain" doc test, skip(3).take(2).
C7_Witness ==
    /\ orig = DocVec /\ Len(takes) = 0 /\ Len(log) = 5
    /\ AllOps(SubSeq(log, 1, 3), "drop") /\ AllOps(SubSeq(log, 4, 5), "take")
    /\ storage = <<0, 1, 2, 5, 6, 7>> /\ Extracted(log) = <<3, 4>>

\* Both traversals of SpecPair have run to their ends.
BothExhausted == prev # <<>> /\ Exhausted

\* The two logs resolve the same Takes, counted in order of emission, by
\* extraction: take in l, take_unstable in u.
SamePositions(l, u) ==
    /\ Len(l) = Len(u)
    /\ \A k \in 1 .. Len(l) :
          /\ l[k].op = "take" <=> u[k].op = "take_unstable"
          /\ l[k].op = "drop" <=> u[k].op = "drop"

\* C8 as claimed: extracting the same Takes by position in the traversal,
\* once with take and once with take_unstable, removes the same multiset.
C8_SamePositionsSameBag ==
    (BothExhausted /\ SamePositions(prev[1].log, log))
        => SameBag(Extracted(prev[1].log), Extracted(log))

\* C8 amended: extracting the elements a predicate P picks, once with take
\* and once with take_unstable, removes the same multiset and leaves the
\* same multiset; only the order of what is left may differ.
C8_SamePredicateSameBag ==
    BothExhausted
        => \A P \in SUBSET (Values \cup Range(orig)) :
              (Conforms(prev[1].log, P, "take")
                  /\ Conforms(log, P, "take_unstable"))
              => /\ SameBag(Extracted(prev[1].log), Extracted(log))
                 /\ SameBag(prev[1].storage, storage)

\* C8 witness: both runs extracted the same elements and what is left is in
\* a different order.
C8_Witness ==
    /\ BothExhausted
    /\ \E P \in SUBSET Values :
          /\ Conforms(prev[1].log, P, "take")
          /\ Conforms(log, P, "take_unstable")
    /\ Len(Extracted(log)) > 0
    /\ storage # prev[1].storage

\* C9: once next has returned None the cursor is at the end with no Take
\* out, and no step changes that: every later next returns None again and
\* index, flag, Vec and the set of live Takes stay as they are.
C9_ExhaustionIsTerminal ==
    [][Exhausted
          => /\ index = VecLen(storage) /\ ~panic /\ Len(takes) = 0
             /\ result' = "none"
             /\ index' = index /\ panic' = panic
             /\ storage' = storage /\ takes' = takes]_vars

\* C9 witness: next has returned None after a traversal that emitted Takes.
C9_Witness ==
    /\ Exhausted /\ cursor = "alive"
    /\ Len(log) > 0 /\ ~AllOps(log, "drop") /\ Len(storage) > 0

\* C10: 0 <= index <= len of the Vec in every state.
C10_IndexInBounds == 0 <= index /\ index <= VecLen(storage)

\* C10 witness: the index stands at the end of a Vec that has shrunk.
C10_Witness ==
    /\ index = VecLen(storage) /\ index > 0
    /\ Len(storage) < Len(orig) /\ Len(takes) = 0

\* C11: while the IterTake exists its flag is set exactly when a Take it
\* emitted is live, and no debug_assert!(parent.panic) has failed.
C11_FlagIffTakeLive ==
    cursor # "dropped" => ((panic <=> Len(takes) > 0) /\ ~asserted)

\* The last record of the log: how the latest Take was resolved.
LastOp == IF Len(log) = 0 THEN "none" ELSE log[Len(log)].op
LastOut == IF Len(log) = 0 THEN NoValue ELSE log[Len(log)].out

\* s with the h-th member (1-based) replaced by v.
Replaced(s, h, v) == SubSeq(s, 1, h - 1) \o <<v>> \o SubSeq(s, h + 1, Len(s))

\* C12: take on a Take bound to index i of a live IterTake returns s[i],
\* leaves s without position i (length n - 1, order kept) and leaves the
\* index at i, where the element that was at i + 1 now stands.
C12_TakeEffect ==
    [][\A h \in 1 .. Len(takes) :
          (cursor = "alive" /\ Take_take(h))
              => LET i == takes[h]
                 IN  /\ i = index
                     /\ LastOut' = storage[i + 1]
                     /\ storage' = Drained(storage, i, 1)
                     /\ Len(storage') = Len(storage) - 1
                     /\ index' = i
                     /\ VecGet(storage', index') = VecGet(storage, i + 1)]_vars

\* C12 witness: a take has left a later element at the index.
C12_Witness ==
    /\ cursor = "alive" /\ LastOp = "take" /\ Len(takes) = 0
    /\ index > 0 /\ index < Len(storage)

\* C13: take_unstable on a Take bound to index i of a live IterTake returns
\* s[i], leaves length n - 1 with s[n - 1] at position i and every other
\* position as it was (i = n - 1: the last element is just removed), and
\* leaves the index at i, where the former last element now stands.
C13_TakeUnstableEffect ==
    [][\A h \in 1 .. Len(takes) :
          (cursor = "alive" /\ Take_take_unstable(h))
              => LET i == takes[h]
                     n == Len(storage)
                     front == SubSeq(storage, 1, n - 1)
                 IN  /\ i = index
                     /\ LastOut' = storage[i + 1]
                     /\ storage' = IF i = n - 1 THEN front
                                    ELSE Replaced(front, i + 1, storage[n])
                     /\ index' = i
                     /\ VecGet(storage', index')
                           = (IF i = n - 1 THEN NoValue ELSE storage[n])]_vars

\* C13 witness: a take_unstable has put the last element before another.
C13_Witness ==
    /\ cursor = "alive" /\ LastOp = "take_unstable" /\ Len(takes) = 0
    /\ Len(log) = 1 /\ index < Len(storage) - 1
    /\ storage[index + 1] = orig[Len(orig)]

\* C14: the drop of a Take of a live IterTake leaves the Vec as it is and
\* adds one to the index; and no step changes the index except such a drop,
\* by one.
C14_DropEffect ==
    [][ /\ \A h \in 1 .. Len(takes) :
              (cursor = "alive" /\ Take_drop(h))
                  => (storage' = storage /\ index' = index + 1)
        /\ index' # index
              => /\ index' = index + 1
                 /\ \E h \in 1 .. Len(takes) : Take_drop(h) ]_vars

\* C14 witness: a Take has been dropped with elements still to visit.
C14_Witness ==
    /\ cursor = "alive" /\ LastOp = "drop" /\ Len(takes) = 0
    /\ index > 0 /\ index < Len(storage)

\* C15: next leaves index and Vec as they are; when it emits a Take it sets
\* the flag and the Take is bound to the index; when it returns None it
\* changes nothing.
C15_NextEffect ==
    [][IterTake_next
          => /\ storage' = storage /\ index' = index
             /\ UNCHANGED <<orig, cursor, log, writes>>
             /\ result' \in {"some", "none", "panic"}
             /\ result' = "some"
                   => /\ panic' = TRUE
                      /\ takes' = Append(takes, index)
             /\ result' = "none"
                   => UNCHANGED <<panic, takes>>]_vars

\* C15 witness: next has emitted a Take at an index past the first.
C15_Witness ==
    /\ result = "some" /\ Len(takes) = 1 /\ takes[1] = index
    /\ index > 0 /\ panic

\* C16: every live Take is bound to the IterTake's index, which is below
\* the length of the Vec: the unchecked accesses of deref and deref_mut and
\* the removals of take and take_unstable are in bounds, and a read through
\* a Take with a valid parent pointer yields the element at the index.
C16_TakeInBounds ==
    \A h \in 1 .. Len(takes) :
        /\ takes[h] = index
        /\ takes[h] < VecLen(storage)
        /\ cursor = "alive" => Take_deref(h) = {storage[index + 1]}

\* C16 witness: a Take is live at a later index of a Vec that has shrunk.
C16_Witness ==
    /\ cursor = "alive" /\ Len(takes) = 1 /\ takes[1] > 0
    /\ Len(storage) < Len(orig)

\* C17: a store of v through a live Take of a live IterTake changes the
\* element at its index and nothing else (length, other elements, index,
\* flag, live Takes); a read through the Take, a take or a take_unstable
\* then yields v.
C17_WriteEffect ==
    [][\A h \in 1 .. Len(takes) : \A v \in Values :
          (cursor = "alive" /\ Take_deref_mut(h, v))
              => LET i == takes[h]
                 IN  /\ storage' = Replaced(storage, i + 1, v)
                     /\ Len(storage') = Len(storage)
                     /\ UNCHANGED <<index, panic, takes>>
                     /\ Take_deref(h)' = {v}
                     /\ VecRemove(storage', i).out = v
                     /\ VecSwapRemove(storage', i).out = v]_vars

\* C17 witness: an element past the first has been overwritten through the
\* Take that is still live.
C17_Witness ==
    /\ cursor = "alive" /\ Len(takes) = 1 /\ writes = 1 /\ index > 0
    /\ storage[index + 1] # orig[index + 1]
    /\ Len(log) = index

\* The elements the resolved Takes showed, in order of resolution.
Shown(l) == [k \in 1 .. Len(l) |-> l[k].val]

\* The elements from the index on: those still to be presented, the one a
\* live Take stands for included.
Ahead == SubSeq(storage, index + 1, Len(storage))

\* C18: in a traversal that resolves each Take before the next call of next,
\* by any mix of drop, take and take_unstable, every element is presented
\* through exactly one Take: the elements presented so far and those still
\* ahead are together the original elements, and at the end as many Takes
\* were emitted as there were elements. (DocVec has no two equal elements.)
C18_ExactlyOnce ==
    /\ SameBag(Shown(log) \o Ahead, orig)
    /\ Len(log) + Len(Ahead) = Len(orig)
    /\ Exhausted => (Len(log) = Len(orig) /\ SameBag(Shown(log), orig))

\* C18 witness: the doc Vec has been traversed to the end with all three
\* ways of resolving a Take.
C18_Witness ==
    /\ Exhausted /\ orig = DocVec
    /\ {log[k].op : k \in 1 .. Len(log)} = {"drop", "take", "take_unstable"}
    /\ storage # NotMatching(orig, Range(Extracted(log)))

\* C19: the values returned so far and the elements in the Vec are together
\* the original elements, and the Vec is shorter than the original by the
\* number of extractions.
C19_Conservation ==
    writes = 0
        => /\ SameBag(Extracted(log) \o storage, orig)
           /\ Len(storage) = Len(orig) - Len(Extracted(log))

\* C19 witness: a Take is live after a take and a take_unstable.
C19_Witness ==
    /\ Len(takes) = 1 /\ orig = DocVec
    /\ {"take", "take_unstable"} \subseteq {log[k].op : k \in 1 .. Len(log)}
    /\ Len(storage) < Len(orig) - 2

\* What is left to visit.
Remaining == VecLen(storage) - index

\* C20: a traversal that keeps calling next and resolves each Take reaches
\* the end, having emitted as many Takes as the Vec had elements: every
\* resolution lowers len - index by one and next leaves it.
C20_Terminates ==
    /\ <>Exhausted
    /\ [](Exhausted => Len(log) = Len(orig))
    /\ [][ /\ log' # log => Remaining' = Remaining - 1
           /\ IterTake_next => Remaining' = Remaining ]_vars

\* C20 witness: the doc Vec's traversal has ended after eight Takes.
C20_Witness ==
    /\ Exhausted /\ orig = DocVec /\ Len(log) = 8 /\ Len(takes) = 0
    /\ Len(storage) = 3

====
